---- MODULE Spec2Model ----
(***************************************************************************)
(* gogitfame: the statistics pipeline of cmd/gitfame/main.go.              *)
(*                                                                         *)
(*   files -> parallelFilter -> filteredChan -> aggregateStats             *)
(*         -> finalStats -> outputResults/sortByConfig -> ranked           *)
(*                                                                         *)
(* Strings that the code inspects character by character (paths, suffixes, *)
(* glob patterns) are sequences of one-character strings.  Identity names  *)
(* and commit hashes are opaque strings; NameOrder lists the names in      *)
(* ascending byte order, which is all that Go's string "<" needs.          *)
(* The answers of git (blame, log) are inputs fixed by Init.               *)
(***************************************************************************)
EXTENDS Integers, Sequences, FiniteSets, TLC

\* ------------------------------------------------------------------ bounds
\* Longest file list of the pipeline specification.
MaxFiles == 2
\* Largest Lines / Commits / Files value of the ranking specification.
MaxStat == 1

\* ------------------------------------------------------- strings (helpers)
\* strings.HasSuffix(s, suffix)
HasSuffix(s, suffix) ==
    /\ Len(suffix) <= Len(s)
    /\ SubSeq(s, Len(s) - Len(suffix) + 1, Len(s)) = suffix

\* filepath.Ext(path): the suffix beginning at the final dot of the final
\* path element, dot included; empty when that element has no dot.
RECURSIVE ExtFrom(_, _)
ExtFrom(path, i) ==
    IF i = 0 \/ path[i] = "/" THEN <<>>
    ELSE IF path[i] = "." THEN SubSeq(path, i, Len(path))
    ELSE ExtFrom(path, i - 1)

Ext(path) == ExtFrom(path, Len(path))

\* filepath.Match(pattern, name) for patterns made of literal characters,
\* "*" (any run of non-separator characters) and "?" (one non-separator
\* character); the whole name has to match.
RECURSIVE Match(_, _)
Match(pattern, name) ==
    IF pattern = <<>> THEN name = <<>>
    ELSE IF Head(pattern) = "*"
        THEN \/ Match(Tail(pattern), name)
             \/ (name # <<>> /\ Head(name) # "/" /\ Match(pattern, Tail(name)))
    ELSE IF Head(pattern) = "?"
        THEN name # <<>> /\ Head(name) # "/" /\ Match(Tail(pattern), Tail(name))
    ELSE name # <<>> /\ Head(name) = Head(pattern)
                     /\ Match(Tail(pattern), Tail(name))

\* strings.ToLower on the language names of the model.
ToLower(s) ==
    CASE s = "Go" -> "go"
      [] s = "MARKDOWN" -> "markdown"
      [] OTHER -> s

\* ----------------------------------------------------------- file filter
\* The loops of the four predicates, element by element as the code runs
\* them: i is the index of the next list element.
RECURSIVE ExtensionsLoop(_, _, _)
ExtensionsLoop(file, extensions, i) ==
    IF i > Len(extensions) THEN FALSE
    ELSE IF HasSuffix(file, extensions[i]) THEN TRUE
    ELSE ExtensionsLoop(file, extensions, i + 1)

matchesExtensions(file, extensions) ==
    IF Len(extensions) = 0 THEN TRUE ELSE ExtensionsLoop(file, extensions, 1)

RECURSIVE ExcludeLoop(_, _, _)
ExcludeLoop(file, patterns, i) ==
    IF i > Len(patterns) THEN TRUE
    ELSE IF Match(patterns[i], file) THEN FALSE
    ELSE ExcludeLoop(file, patterns, i + 1)

matchesExcludePatterns(file, patterns) ==
    IF Len(patterns) = 0 THEN TRUE ELSE ExcludeLoop(file, patterns, 1)

RECURSIVE RestrictToLoop(_, _, _)
RestrictToLoop(file, patterns, i) ==
    IF i > Len(patterns) THEN FALSE
    ELSE IF Match(patterns[i], file) THEN TRUE
    ELSE RestrictToLoop(file, patterns, i + 1)

matchesRestrictToPatterns(file, patterns) ==
    IF Len(patterns) = 0 THEN TRUE ELSE RestrictToLoop(file, patterns, 1)

\* configs.LoadExtensionsMap(): lower-cased language name -> its extensions,
\* for the two languages the model's table holds.
LoadExtensionsMap ==
    [go |-> << <<".", "g", "o">> >>,
     markdown |-> << <<".", "m", "d">>, <<".", "m", "k", "d">> >>]

RECURSIVE AllowedExtensionLoop(_, _, _)
AllowedExtensionLoop(fileExtension, existedLang, j) ==
    IF j > Len(existedLang) THEN FALSE
    ELSE IF HasSuffix(fileExtension, existedLang[j]) THEN TRUE
    ELSE AllowedExtensionLoop(fileExtension, existedLang, j + 1)

\* LanguagesLoop without the lower-casing of the requested name.
RECURSIVE LanguagesLoopNoLower(_, _, _)
LanguagesLoopNoLower(fileExtension, cfg, i) ==
    IF i > Len(cfg.Languages) THEN FALSE
    ELSE LET allowedLang == cfg.Languages[i]
         IN IF /\ allowedLang \in DOMAIN cfg.ExtensionsMap
               /\ AllowedExtensionLoop(fileExtension,
                                       cfg.ExtensionsMap[allowedLang], 1)
            THEN TRUE
            ELSE LanguagesLoopNoLower(fileExtension, cfg, i + 1)

RECURSIVE LanguagesLoop(_, _, _)
LanguagesLoop(fileExtension, cfg, i) ==
    IF i > Len(cfg.Languages) THEN FALSE
    ELSE LET allowedLang == ToLower(cfg.Languages[i])
         IN IF /\ allowedLang \in DOMAIN cfg.ExtensionsMap
               /\ AllowedExtensionLoop(fileExtension,
                                       cfg.ExtensionsMap[allowedLang], 1)
            THEN TRUE
            ELSE LanguagesLoop(fileExtension, cfg, i + 1)

matchesLanguage(filePath, cfg) ==
    IF Len(cfg.Languages) = 0 THEN TRUE
    ELSE LanguagesLoop(Ext(filePath), cfg, 1)

\* FilterCondition without the exclude predicate.
FilterConditionNoExclude(file, cfg) ==
    /\ matchesExtensions(file, cfg.Extensions)
    /\ matchesRestrictToPatterns(file, cfg.RestrictTo)
    /\ matchesLanguage(file, cfg)

\* The condition of the filter worker (main.go:203-206).
FilterCondition(file, cfg) ==
    /\ matchesExtensions(file, cfg.Extensions)
    /\ matchesExcludePatterns(file, cfg.Exclude)
    /\ matchesRestrictToPatterns(file, cfg.RestrictTo)
    /\ matchesLanguage(file, cfg)

\* ------------------------------------------------------ attribution model
\* ActorStats (main.go:40-46).  commitsSet is a Go map used as a set: hasSet
\* is FALSE for the nil map of a zero-valued ActorStats{} (reading or
\* ranging over it is fine, writing into it aborts the program).
ZeroActorStats ==
    [Name |-> "", Lines |-> 0, commitsSet |-> {}, hasSet |-> FALSE,
     Commits |-> 0, Files |-> 0]

\* The empty (or nil) map[string]ActorStats.
EmptyMap == [a \in {} |-> ZeroActorStats]

\* m with m[k] = v added or overwritten.
MapPut(m, k, v) ==
    [a \in DOMAIN m \cup {k} |-> IF a = k THEN v ELSE m[a]]

\* infoEmptyFile that forgets to count the file.
infoEmptyFileNoFile(log) ==
    IF log.err THEN ZeroActorStats
    ELSE [Name |-> log.an, Lines |-> 0, commitsSet |-> {log.hash},
          hasSet |-> TRUE, Commits |-> 0, Files |-> 0]

\* infoEmptyFile(file, config): log is the answer of
\* `git log -n 1 --pretty=format:%H\n%an`: [err, hash, an].
infoEmptyFile(log) ==
    IF log.err THEN ZeroActorStats
    ELSE [Name |-> log.an, Lines |-> 0, commitsSet |-> {log.hash},
          hasSet |-> TRUE, Commits |-> 0, Files |-> 1]

\* BlameEntry with the file counted once per line run instead of once per
\* identity.
BlameEntryCountsRuns(actorStats, line, cfg) ==
    LET actor == IF cfg.UseCommitter THEN line.committer ELSE line.author
        stats == IF actor \in DOMAIN actorStats
                    THEN [actorStats[actor] EXCEPT !.Files = @ + 1]
                 ELSE [ZeroActorStats EXCEPT !.Files = 1, !.hasSet = TRUE]
    IN MapPut(actorStats, actor,
              [stats EXCEPT !.Lines = @ + line.nLines,
                            !.Name = actor,
                            !.commitsSet = @ \cup {line.hash}])

\* One matching header line of the blame loop (main.go:263-286): line is a
\* porcelain entry [hash, nLines, first, author, committer].
BlameEntry(actorStats, line, cfg) ==
    LET actor == IF cfg.UseCommitter THEN line.committer ELSE line.author
        stats == IF actor \in DOMAIN actorStats THEN actorStats[actor]
                 ELSE [ZeroActorStats EXCEPT !.Files = 1, !.hasSet = TRUE]
    IN MapPut(actorStats, actor,
              [stats EXCEPT !.Lines = @ + line.nLines,
                            !.Name = actor,
                            !.commitsSet = @ \cup {line.hash}])

\* The loop over the blame output (main.go:261-288).  Only the first entry
\* of a line group carries the group's line count in its header, and only
\* such a header matches commitLineRegexp.
RECURSIVE BlameLoop(_, _, _, _)
BlameLoop(lines, i, actorStats, cfg) ==
    IF i > Len(lines) THEN actorStats
    ELSE IF lines[i].first
        THEN BlameLoop(lines, i + 1, BlameEntry(actorStats, lines[i], cfg), cfg)
    ELSE BlameLoop(lines, i + 1, actorStats, cfg)

\* calculateStats that ignores the error of git blame and goes on with the
\* empty output.
calculateStatsIgnoresErr(blame, log, cfg) ==
    IF Len(blame.out) = 0
        THEN LET stats == infoEmptyFile(log)
             IN MapPut(EmptyMap, stats.Name, stats)
    ELSE BlameLoop(blame.out, 1, EmptyMap, cfg)

\* calculateStats(file, config): blame is the answer of `git blame
\* --line-porcelain`: [err, out], out the sequence of porcelain entries.
calculateStats(blame, log, cfg) ==
    IF blame.err THEN EmptyMap
    ELSE IF Len(blame.out) = 0
        THEN LET stats == infoEmptyFile(log)
             IN MapPut(EmptyMap, stats.Name, stats)
    ELSE BlameLoop(blame.out, 1, EmptyMap, cfg)

\* MergeEntry without the loop that unions the commit ids.
MergeEntryNoUnion(existing, info) ==
    [existing EXCEPT !.Lines = @ + info.Lines,
                     !.Files = @ + info.Files]

\* MergeEntry without the addition of the lines.
MergeEntryDropsLines(existing, info) ==
    [existing EXCEPT !.Files = @ + info.Files,
                     !.commitsSet = @ \cup info.commitsSet]

\* The body of the merge loop for one received result (main.go:315-326).
\* The entries of stats have distinct keys, so the order in which Go ranges
\* over them does not change the merged map.
MergeEntry(existing, info) ==
    [existing EXCEPT !.Lines = @ + info.Lines,
                     !.Files = @ + info.Files,
                     !.commitsSet = @ \cup info.commitsSet]

MergeStats(final, stats) ==
    [a \in DOMAIN final \cup DOMAIN stats |->
        IF a \in DOMAIN final /\ a \in DOMAIN stats
            THEN MergeEntry(final[a], stats[a])
        ELSE IF a \in DOMAIN stats THEN stats[a]
        ELSE final[a]]

\* main.go:325 stores info, and with it the map info.commitsSet itself,
\* when the identity is new; main.go:317-323 keep the map already stored.
\* owner[a] names the file whose result made the stored map.
MergeOwner(owner, stats, i) ==
    [a \in DOMAIN owner \cup DOMAIN stats |->
        IF a \in DOMAIN owner THEN owner[a]
        ELSE IF stats[a].hasSet THEN i
        ELSE 0]

\* main.go:320 writes into existing.commitsSet; Go aborts ("assignment to
\* entry in nil map") when that map is nil and info has a commit to add.
MergePanics(final, stats) ==
    \E a \in DOMAIN final \cap DOMAIN stats :
        ~final[a].hasSet /\ stats[a].commitsSet # {}

\* The finalisation loop (main.go:329-332).
FinalizeCommits(final) ==
    [a \in DOMAIN final |->
        [final[a] EXCEPT !.Commits = Cardinality(final[a].commitsSet)]]

\* ---------------------------------------------------------------- ranking
\* The identity names of the model in ascending byte order ("" < "Dev1" <
\* "Dev2"), and Go's string "<" on them.
NameOrder == <<"", "Dev1", "Dev2">>

Names == {NameOrder[i] : i \in DOMAIN NameOrder}

NameIndex(n) == CHOOSE i \in DOMAIN NameOrder : NameOrder[i] = n

StrLess(a, b) == NameIndex(a) < NameIndex(b)

\* The comparator with the cascade of "files" run as Files, Commits, Lines.
lessFilesCascadeSwapped(ai, aj, orderBy) ==
    IF ai.Commits = aj.Commits /\ ai.Lines = aj.Lines /\ ai.Files = aj.Files
        THEN StrLess(ai.Name, aj.Name)
    ELSE IF orderBy = "commits"
        THEN IF ai.Commits # aj.Commits THEN ai.Commits > aj.Commits
             ELSE IF ai.Lines # aj.Lines THEN ai.Lines > aj.Lines
             ELSE ai.Files > aj.Files
    ELSE IF orderBy = "files"
        THEN IF ai.Files # aj.Files THEN ai.Files > aj.Files
             ELSE IF ai.Commits # aj.Commits THEN ai.Commits > aj.Commits
             ELSE ai.Lines > aj.Lines
    ELSE IF ai.Lines # aj.Lines THEN ai.Lines > aj.Lines
         ELSE IF ai.Commits # aj.Commits THEN ai.Commits > aj.Commits
         ELSE ai.Files > aj.Files

\* The comparator closure of sortByConfig (main.go:338-371) on two elements.
less(ai, aj, orderBy) ==
    IF ai.Commits = aj.Commits /\ ai.Lines = aj.Lines /\ ai.Files = aj.Files
        THEN StrLess(ai.Name, aj.Name)
    ELSE IF orderBy = "commits"
        THEN IF ai.Commits # aj.Commits THEN ai.Commits > aj.Commits
             ELSE IF ai.Lines # aj.Lines THEN ai.Lines > aj.Lines
             ELSE ai.Files > aj.Files
    ELSE IF orderBy = "files"
        THEN IF ai.Files # aj.Files THEN ai.Files > aj.Files
             ELSE IF ai.Lines # aj.Lines THEN ai.Lines > aj.Lines
             ELSE ai.Commits > aj.Commits
    ELSE IF ai.Lines # aj.Lines THEN ai.Lines > aj.Lines
         ELSE IF ai.Commits # aj.Commits THEN ai.Commits > aj.Commits
         ELSE ai.Files > aj.Files

\* sort.Slice on a slice of at most 12 elements is an insertion sort:
\*   for i := a+1; i < b; i++ {
\*     for j := i; j > a && less(j, j-1); j-- { swap(j, j-1) } }
Swap(actors, j) ==
    [actors EXCEPT ![j] = actors[j - 1], ![j - 1] = actors[j]]

RECURSIVE InsertInner(_, _, _)
InsertInner(actors, j, orderBy) ==
    IF j > 1 /\ less(actors[j], actors[j - 1], orderBy)
        THEN InsertInner(Swap(actors, j), j - 1, orderBy)
    ELSE actors

RECURSIVE InsertOuter(_, _, _)
InsertOuter(actors, i, orderBy) ==
    IF i > Len(actors) THEN actors
    ELSE InsertOuter(InsertInner(actors, i, orderBy), i + 1, orderBy)

sortByConfig(actors, orderBy) == InsertOuter(actors, 2, orderBy)

\* The orders in which Go may range over the keys of a map: every
\* arrangement of the keys.
KeyOrders(m) ==
    {o \in [1..Cardinality(DOMAIN m) -> DOMAIN m] :
        \A i, j \in DOMAIN o : i # j => o[i] # o[j]}

\* ------------------------------------------------------------------ state
VARIABLES
    files,          \* the file list of getFiles: a sequence of paths
    config,         \* Config
    git,            \* git[i]: the answers of git blame / git log for files[i]
    mainPc,         \* position of the main goroutine
    next,           \* index of the next file of the loop at main.go:199
    fw,             \* fw[i]: position of the filter worker of files[i]
    filterWg,       \* counter of filterWg
    filteredChan,   \* buffer of filteredChan (indices into files)
    filteredClosed, \* filteredChan is closed
    fcloser,        \* position of the goroutine at main.go:211
    ew,             \* ew[i]: position of the extraction worker of files[i]
    result,         \* result[i]: fileStats of the worker of files[i]
    aggWg,          \* counter of aggWg
    resultsClosed,  \* resultsChan is closed
    acloser,        \* position of the goroutine at main.go:309
    finalStats,     \* the accumulator of aggregateStats
    setOwner,       \* setOwner[a]: the file whose result made the map that is
                    \* finalStats[a].commitsSet (0: that map is nil)
    ranked,         \* actors after sortByConfig in outputResults
    panic           \* "none", or the runtime error that ended the process

vars ==
    <<files, config, git, mainPc, next, fw, filterWg, filteredChan,
      filteredClosed, fcloser, ew, result, aggWg, resultsClosed, acloser,
      finalStats, setOwner, ranked, panic>>

inputs == <<files, config, git>>

filterVars == <<fw, filterWg, filteredChan, filteredClosed, fcloser>>

aggVars ==
    <<ew, result, aggWg, resultsClosed, acloser, finalStats, setOwner>>

\* ----------------------------------------------------------------- inputs
Letters == <<"a", "b", "c", "d", "e", "f", "g", "h">>

\* The i-th path of the listing: a.go, b.md, c.go, d.md, ...
FilePath(i) ==
    IF i % 2 = 1 THEN <<Letters[i], ".", "g", "o">>
    ELSE <<Letters[i], ".", "m", "d">>

FileList(n) == [i \in 1..n |-> FilePath(i)]

\* One porcelain entry of git blame --line-porcelain.
Entry(hash, nLines, first, author, committer) ==
    [hash |-> hash, nLines |-> nLines, first |-> first,
     author |-> author, committer |-> committer]

\* The answers of git for one file: blame (blameErr, out) and, asked only
\* when out is empty, log (logErr, hash, an).  cn is the committer of the
\* commit that log names: the format of main.go:220 asks for %H and %an
\* only, so no answer carries it.
Answer(blameErr, out, logErr, hash, an, cn) ==
    [blame |-> [err |-> blameErr, out |-> out],
     log |-> [err |-> logErr, hash |-> hash, an |-> an],
     cn |-> cn]

BlameFails == Answer(TRUE, <<>>, FALSE, "C1", "Dev1", "Dev1")

EmptyLogFails == Answer(FALSE, <<>>, TRUE, "C1", "Dev1", "Dev1")

\* An empty file whose last commit C2 was written by Dev2 and committed by
\* Dev1.
EmptyLogOk == Answer(FALSE, <<>>, FALSE, "C2", "Dev2", "Dev1")

\* b.go of the end-to-end scenario: five lines of Dev1 in commit C1, in two
\* separate runs (the first run is three lines long, and the headers of its
\* second and third line carry no count), and five lines of Dev2 in C2.
ThreeRuns ==
    Answer(FALSE,
           <<Entry("C1", 3, TRUE, "Dev1", "Dev2"),
             Entry("C1", 0, FALSE, "Dev1", "Dev2"),
             Entry("C1", 0, FALSE, "Dev1", "Dev2"),
             Entry("C2", 5, TRUE, "Dev2", "Dev2"),
             Entry("C1", 2, TRUE, "Dev1", "Dev2")>>,
           FALSE, "C1", "Dev1", "Dev2")

\* a.go of the end-to-end scenario: ten lines of Dev1 in commit C1.
OneRun ==
    Answer(FALSE, <<Entry("C1", 10, TRUE, "Dev1", "Dev1")>>,
           FALSE, "C1", "Dev1", "Dev1")

\* A commit whose author name is empty: git stores and blames such commits
\* (they come from imports and from tools that write commit objects
\* themselves), the porcelain line is "author " and TrimPrefix leaves "".
NamelessRun ==
    Answer(FALSE, <<Entry("C2", 1, TRUE, "", "Dev1")>>,
           FALSE, "C2", "", "Dev1")

Answers ==
    {BlameFails, EmptyLogFails, EmptyLogOk, ThreeRuns, OneRun, NamelessRun}

GoSuffix == <<".", "g", "o">>

Configs ==
    [OrderBy : {"lines", "commits", "files"},
     UseCommitter : BOOLEAN,
     Extensions : {<<>>, <<GoSuffix>>},
     Languages : {<<>>},
     Exclude : {<<>>},
     RestrictTo : {<<>>},
     ExtensionsMap : {LoadExtensionsMap}]

\* ------------------------------------------------------------------- init
\* The state when main calls parallelFilter, for a given input.
Start(fs, cfg, answers) ==
    /\ files = fs
    /\ config = cfg
    /\ git = answers
    /\ mainPc = "filterLoop"
    /\ next = 1
    /\ fw = [i \in DOMAIN fs |-> "idle"]
    /\ filterWg = 0
    /\ filteredChan = <<>>
    /\ filteredClosed = FALSE
    /\ fcloser = "idle"
    /\ ew = [i \in DOMAIN fs |-> "idle"]
    /\ result = [i \in DOMAIN fs |-> EmptyMap]
    /\ aggWg = 0
    /\ resultsClosed = FALSE
    /\ acloser = "idle"
    /\ finalStats = EmptyMap
    /\ setOwner = <<>>
    /\ ranked = <<>>
    /\ panic = "none"

Init ==
    \E n \in 0..MaxFiles, cfg \in Configs :
        \E answers \in [1..n -> Answers] :
            Start(FileList(n), cfg, answers)

\* ------------------------------------------------- parallelFilter actions
\* main.go:199-201: the next iteration of the loop: Add(1) and go.
SpawnFilter ==
    /\ panic = "none"
    /\ mainPc = "filterLoop"
    /\ next <= Len(files)
    /\ filterWg' = filterWg + 1
    /\ fw' = [fw EXCEPT ![next] = "run"]
    /\ next' = next + 1
    /\ UNCHANGED <<inputs, mainPc, filteredChan, filteredClosed, fcloser,
                   aggVars, ranked, panic>>

\* main.go:211-216 and 293-299: the loop is over; start the closer, return
\* the channel; main enters aggregateStats and its range over files.
SpawnFilterCloser ==
    /\ panic = "none"
    /\ mainPc = "filterLoop"
    /\ next > Len(files)
    /\ fcloser' = "wait"
    /\ mainPc' = "rangeFiles"
    /\ UNCHANGED <<inputs, next, fw, filterWg, filteredChan, filteredClosed,
                   aggVars, ranked, panic>>

\* A filtered stream with room for one path only.
CapacityOne(fs) == 1

\* main.go:197: make(chan string, len(files)).
Capacity(fs) == Len(fs)

\* main.go:203-208: evaluate the filter and send a match.  The channel has
\* room for len(files) values; a send on a closed channel aborts.
FilterWorker(i) ==
    /\ panic = "none"
    /\ fw[i] = "run"
    /\ IF FilterCondition(files[i], config)
        THEN IF filteredClosed
                THEN /\ panic' = "send on closed channel"
                     /\ UNCHANGED <<fw, filteredChan>>
             ELSE /\ Len(filteredChan) < Capacity(files)
                  /\ filteredChan' = Append(filteredChan, i)
                  /\ fw' = [fw EXCEPT ![i] = "sent"]
                  /\ UNCHANGED panic
       ELSE /\ fw' = [fw EXCEPT ![i] = "sent"]
            /\ UNCHANGED <<filteredChan, panic>>
    /\ UNCHANGED <<inputs, mainPc, next, filterWg, filteredClosed, fcloser,
                   aggVars, ranked>>

\* main.go:202: the deferred filterWg.Done().
FilterDone(i) ==
    /\ panic = "none"
    /\ fw[i] = "sent"
    /\ fw' = [fw EXCEPT ![i] = "done"]
    /\ filterWg' = filterWg - 1
    /\ UNCHANGED <<inputs, mainPc, next, filteredChan, filteredClosed,
                   fcloser, aggVars, ranked, panic>>

\* A closer that does not wait for the workers.
FilterCloserNoWait ==
    /\ panic = "none"
    /\ fcloser = "wait"
    /\ fcloser' = "close"
    /\ UNCHANGED <<inputs, mainPc, next, fw, filterWg, filteredChan,
                   filteredClosed, aggVars, ranked, panic>>

\* main.go:212: filterWg.Wait() returns once the counter is zero.
FilterCloserWait ==
    /\ panic = "none"
    /\ fcloser = "wait"
    /\ filterWg = 0
    /\ fcloser' = "close"
    /\ UNCHANGED <<inputs, mainPc, next, fw, filterWg, filteredChan,
                   filteredClosed, aggVars, ranked, panic>>

\* main.go:213: close(filteredChan).
FilterCloserClose ==
    /\ panic = "none"
    /\ fcloser = "close"
    /\ IF filteredClosed
        THEN panic' = "close of closed channel" /\ UNCHANGED <<filteredClosed, fcloser>>
       ELSE filteredClosed' = TRUE /\ fcloser' = "done" /\ UNCHANGED panic
    /\ UNCHANGED <<inputs, mainPc, next, fw, filterWg, filteredChan,
                   aggVars, ranked>>

\* ------------------------------------------------- aggregateStats actions
\* main.go:299-306: receive a file from filteredChan, Add(1) and go.
RangeFilesRecv ==
    /\ panic = "none"
    /\ mainPc = "rangeFiles"
    /\ filteredChan # <<>>
    /\ filteredChan' = Tail(filteredChan)
    /\ aggWg' = aggWg + 1
    /\ ew' = [ew EXCEPT ![Head(filteredChan)] = "calc"]
    /\ UNCHANGED <<inputs, mainPc, next, fw, filterWg, filteredClosed,
                   fcloser, result, resultsClosed, acloser, finalStats,
                   setOwner, ranked, panic>>

\* A merge loop that starts as soon as filteredChan is empty, closed or
\* not.
RangeFilesEndWhenEmpty ==
    /\ panic = "none"
    /\ mainPc = "rangeFiles"
    /\ filteredChan = <<>>
    /\ acloser' = "wait"
    /\ mainPc' = "rangeResults"
    /\ UNCHANGED <<inputs, next, filterVars, ew, result, aggWg,
                   resultsClosed, finalStats, setOwner, ranked, panic>>

\* main.go:299, 309-314: filteredChan is closed and drained; start the
\* closer of resultsChan and enter the range over resultsChan.
RangeFilesEnd ==
    /\ panic = "none"
    /\ mainPc = "rangeFiles"
    /\ filteredChan = <<>>
    /\ filteredClosed
    /\ acloser' = "wait"
    /\ mainPc' = "rangeResults"
    /\ UNCHANGED <<inputs, next, filterVars, ew, result, aggWg,
                   resultsClosed, finalStats, setOwner, ranked, panic>>

\* An extraction worker that merges its own result into the accumulator
\* instead of leaving that to the loop of main.
ExtractAndMerge(i) ==
    /\ panic = "none"
    /\ ew[i] = "calc"
    /\ LET stats == calculateStats(git[i].blame, git[i].log, config)
       IN /\ result' = [result EXCEPT ![i] = stats]
          /\ ~MergePanics(finalStats, stats)
          /\ finalStats' = MergeStats(finalStats, stats)
          /\ setOwner' = MergeOwner(setOwner, stats, i)
    /\ ew' = [ew EXCEPT ![i] = "send"]
    /\ UNCHANGED <<inputs, mainPc, next, filterVars, aggWg, resultsClosed,
                   acloser, ranked, panic>>

\* main.go:304: fileStats := calculateStats(file, config).
Extract(i) ==
    /\ panic = "none"
    /\ ew[i] = "calc"
    /\ result' = [result EXCEPT
                    ![i] = calculateStats(git[i].blame, git[i].log, config)]
    /\ ew' = [ew EXCEPT ![i] = "send"]
    /\ UNCHANGED <<inputs, mainPc, next, filterVars, aggWg, resultsClosed,
                   acloser, finalStats, setOwner, ranked, panic>>

\* main.go:305 with 314-327: resultsChan is unbuffered, so the send of
\* worker i completes together with the receive of the merge loop, which
\* then merges the whole result before it receives again.  A send on a
\* closed channel, or a write into a nil commitsSet, aborts.
Merge(i) ==
    /\ panic = "none"
    /\ ew[i] = "send"
    /\ IF resultsClosed
        THEN /\ panic' = "send on closed channel"
             /\ UNCHANGED <<ew, finalStats, setOwner>>
       ELSE /\ mainPc = "rangeResults"
            /\ IF MergePanics(finalStats, result[i])
                THEN /\ panic' = "assignment to entry in nil map"
                     /\ UNCHANGED <<finalStats, setOwner>>
               ELSE /\ finalStats' = MergeStats(finalStats, result[i])
                    /\ setOwner' = MergeOwner(setOwner, result[i], i)
                    /\ UNCHANGED panic
            /\ ew' = [ew EXCEPT ![i] = "sent"]
    /\ UNCHANGED <<inputs, mainPc, next, filterVars, result, aggWg,
                   resultsClosed, acloser, ranked>>

\* main.go:302: the deferred aggWg.Done().
ExtractDone(i) ==
    /\ panic = "none"
    /\ ew[i] = "sent"
    /\ ew' = [ew EXCEPT ![i] = "done"]
    /\ aggWg' = aggWg - 1
    /\ UNCHANGED <<inputs, mainPc, next, filterVars, result, resultsClosed,
                   acloser, finalStats, setOwner, ranked, panic>>

\* A closer of resultsChan that does not wait for the workers.
AggCloserNoWait ==
    /\ panic = "none"
    /\ acloser = "wait"
    /\ acloser' = "close"
    /\ UNCHANGED <<inputs, mainPc, next, filterVars, ew, result, aggWg,
                   resultsClosed, finalStats, setOwner, ranked, panic>>

\* main.go:310: aggWg.Wait() returns once the counter is zero.
AggCloserWait ==
    /\ panic = "none"
    /\ acloser = "wait"
    /\ aggWg = 0
    /\ acloser' = "close"
    /\ UNCHANGED <<inputs, mainPc, next, filterVars, ew, result, aggWg,
                   resultsClosed, finalStats, setOwner, ranked, panic>>

\* main.go:311: close(resultsChan).
AggCloserClose ==
    /\ panic = "none"
    /\ acloser = "close"
    /\ IF resultsClosed
        THEN panic' = "close of closed channel" /\ UNCHANGED <<resultsClosed, acloser>>
       ELSE resultsClosed' = TRUE /\ acloser' = "done" /\ UNCHANGED panic
    /\ UNCHANGED <<inputs, mainPc, next, filterVars, ew, result, aggWg,
                   finalStats, setOwner, ranked>>

\* Finalize without the barrier: the Commits fields are written as soon as
\* main is in the merge loop, whether or not resultsChan is closed.
FinalizeBeforeClose ==
    /\ panic = "none"
    /\ mainPc = "rangeResults"
    /\ finalStats' = FinalizeCommits(finalStats)
    /\ mainPc' = "output"
    /\ UNCHANGED <<inputs, next, filterVars, ew, result, aggWg,
                   resultsClosed, acloser, setOwner, ranked, panic>>

\* main.go:314, 329-334: resultsChan is closed; finalise every Commits
\* field and return finalStats.
Finalize ==
    /\ panic = "none"
    /\ mainPc = "rangeResults"
    /\ resultsClosed
    /\ finalStats' = FinalizeCommits(finalStats)
    /\ mainPc' = "output"
    /\ UNCHANGED <<inputs, next, filterVars, ew, result, aggWg,
                   resultsClosed, acloser, setOwner, ranked, panic>>

\* main.go:375-381: outputResults copies the map into a slice, in whatever
\* order the range over the map yields, and sorts it.
OutputResults ==
    /\ panic = "none"
    /\ mainPc = "output"
    /\ \E o \in KeyOrders(finalStats) :
        ranked' = sortByConfig([k \in DOMAIN o |-> finalStats[o[k]]],
                               config.OrderBy)
    /\ mainPc' = "done"
    /\ UNCHANGED <<inputs, next, filterVars, aggVars, panic>>

\* ------------------------------------------------------------------- spec
Next ==
    \/ SpawnFilter
    \/ SpawnFilterCloser
    \/ \E i \in DOMAIN files : FilterWorker(i)
    \/ \E i \in DOMAIN files : FilterDone(i)
    \/ FilterCloserWait
    \/ FilterCloserClose
    \/ RangeFilesRecv
    \/ RangeFilesEnd
    \/ \E i \in DOMAIN files : Extract(i)
    \/ \E i \in DOMAIN files : Merge(i)
    \/ \E i \in DOMAIN files : ExtractDone(i)
    \/ AggCloserWait
    \/ AggCloserClose
    \/ Finalize
    \/ OutputResults

Spec == Init /\ [][Next]_vars

\* -------------------------------------------- the filter on richer inputs
\* The pipeline on file lists and filter configurations that exercise the
\* four predicates: a.go, b.md, d/a.go, go (a name without extension) and
\* c.d (an extension that ends like .md without being it).
FilterPaths ==
    {<<"a", ".", "g", "o">>,
     <<"b", ".", "m", "d">>,
     <<"d", "/", "a", ".", "g", "o">>,
     <<"g", "o">>,
     <<"c", ".", "d">>}

FilterConfigs ==
    [OrderBy : {"lines"},
     UseCommitter : {FALSE},
     Extensions : {<<>>, <<GoSuffix>>, << <<".", "m", "d">>, <<"g", "o">> >>},
     Languages : {<<>>, <<"Go">>, <<"rust", "MARKDOWN">>, <<"rust">>},
     Exclude : {<<>>, << <<"*", ".", "m", "d">> >>,
                << <<"d", "/", "*">>, <<"?", ".", "g", "o">> >>},
     RestrictTo : {<<>>, << <<"*", ".", "g", "o">> >>,
                   << <<"d", "/", "*">>, <<"b", ".", "*">> >>},
     ExtensionsMap : {LoadExtensionsMap}]

\* git ls-tree lists every path once.
FilterFileLists ==
    UNION {{fs \in [1..n -> FilterPaths] :
                \A i, j \in 1..n : i # j => fs[i] # fs[j]} : n \in 0..MaxFiles}

InitFilter ==
    \E fs \in FilterFileLists, cfg \in FilterConfigs :
        Start(fs, cfg, [i \in DOMAIN fs |-> IF i % 2 = 1 THEN OneRun ELSE ThreeRuns])

SpecFilter == InitFilter /\ [][Next]_vars

\* ------------------------------------------- the ranking on its own inputs
\* outputResults on every mapping of at most three identities whose Lines,
\* Commits and Files are at most MaxStat.
SortStat(a, t) ==
    [Name |-> a, Lines |-> t[1], commitsSet |-> {}, hasSet |-> TRUE,
     Commits |-> t[2], Files |-> t[3]]

StatTriples == (0..MaxStat) \X (0..MaxStat) \X (0..MaxStat)

InitSort ==
    \E ks \in SUBSET Names, orderBy \in {"lines", "commits", "files"} :
        \E t \in [ks -> StatTriples] :
            /\ files = <<>>
            /\ config = [OrderBy |-> orderBy, UseCommitter |-> FALSE,
                         Extensions |-> <<>>, Languages |-> <<>>,
                         Exclude |-> <<>>, RestrictTo |-> <<>>,
                         ExtensionsMap |-> LoadExtensionsMap]
            /\ git = <<>>
            /\ mainPc = "output"
            /\ next = 1
            /\ fw = <<>>
            /\ filterWg = 0
            /\ filteredChan = <<>>
            /\ filteredClosed = TRUE
            /\ fcloser = "done"
            /\ ew = <<>>
            /\ result = <<>>
            /\ aggWg = 0
            /\ resultsClosed = TRUE
            /\ acloser = "done"
            /\ finalStats = [a \in ks |-> SortStat(a, t[a])]
            /\ setOwner = [a \in ks |-> 0]
            /\ ranked = <<>>
            /\ panic = "none"

NextSort == OutputResults

SpecSort == InitSort /\ [][NextSort]_vars

\* ------------------------------------------------- what the input says
\* The attribution of the input, read off the answers of git without
\* running the pipeline.
Filtered == {i \in DOMAIN files : FilterCondition(files[i], config)}

Identity(line) ==
    IF config.UseCommitter THEN line.committer ELSE line.author

\* The attribution records of files[i]: the entries that start a line run.
Runs(i) ==
    IF git[i].blame.err THEN {}
    ELSE {k \in DOMAIN git[i].blame.out : git[i].blame.out[k].first}

\* files[i] has no attributable line and git log names its last commit.
HasFallback(i) ==
    /\ ~git[i].blame.err
    /\ git[i].blame.out = <<>>
    /\ ~git[i].log.err

\* files[i] has no attributable line and git log fails.
FallbackFails(i) ==
    /\ ~git[i].blame.err
    /\ git[i].blame.out = <<>>
    /\ git[i].log.err

RunsOf(a, i) == {k \in Runs(i) : Identity(git[i].blame.out[k]) = a}

CommitsOf(a, i) ==
    {git[i].blame.out[k].hash : k \in RunsOf(a, i)}
        \cup (IF HasFallback(i) /\ git[i].log.an = a
                THEN {git[i].log.hash} ELSE {})

Appears(a, i) == CommitsOf(a, i) # {}

RECURSIVE SumRuns(_, _)
SumRuns(i, ks) ==
    IF ks = {} THEN 0
    ELSE LET k == CHOOSE x \in ks : TRUE
         IN git[i].blame.out[k].nLines + SumRuns(i, ks \ {k})

RECURSIVE SumLines(_, _)
SumLines(a, fs) ==
    IF fs = {} THEN 0
    ELSE LET i == CHOOSE x \in fs : TRUE
         IN SumRuns(i, RunsOf(a, i)) + SumLines(a, fs \ {i})

\* aggregateStats has returned its mapping.
Returned == mainPc \in {"output", "done"}

\* ----------------------------------------------------------------- claims
\* C1: after aggregateStats returns, Commits(a) of every identity a of the
\* final mapping is the number of distinct commit ids attributed to a over
\* all filtered files (the size of the union of the per-file sets), whatever
\* the order in which the results were merged.
C1_CommitsIsUnion ==
    Returned =>
        \A a \in DOMAIN finalStats :
            finalStats[a].Commits =
                Cardinality(UNION {CommitsOf(a, i) : i \in Filtered})

\* C1 witness: one commit of an identity spans two filtered files and is
\* counted once.
C1_Witness ==
    /\ Returned
    /\ \E a \in DOMAIN finalStats, i, j \in Filtered :
        /\ i # j
        /\ CommitsOf(a, i) \cap CommitsOf(a, j) # {}
        /\ finalStats[a].Commits = 1

\* C2: a filtered file in which identity a appears adds exactly 1 to
\* Files(a), however many runs or commits of a it holds, so Files(a) of
\* the final mapping is the number of filtered files in which a appears.
C2_FilesCountsFilesOnce ==
    /\ \A i \in DOMAIN files :
        ew[i] \in {"send", "sent", "done"} =>
            \A a \in Names : Appears(a, i) =>
                a \in DOMAIN result[i] /\ result[i][a].Files = 1
    /\ Returned =>
        \A a \in DOMAIN finalStats :
            finalStats[a].Files =
                Cardinality({i \in Filtered : Appears(a, i)})

\* C2 witness: an identity with two separate runs in its only file.
C2_Witness ==
    /\ Returned
    /\ \E a \in DOMAIN finalStats, i \in Filtered :
        /\ Cardinality(RunsOf(a, i)) >= 2
        /\ finalStats[a].Files = 1

\* C3: after aggregateStats returns, Lines(a) is the sum of the run lengths
\* of all attribution records of a over all filtered files.
C3_LinesIsSum ==
    Returned =>
        \A a \in DOMAIN finalStats :
            finalStats[a].Lines = SumLines(a, Filtered)

\* C3 witness: the end-to-end scenario, a.go with 10 lines of Dev1 in C1 and
\* b.go with 5 lines of Dev1 in C1 and 5 of Dev2 in C2.
C3_Witness ==
    /\ Returned
    /\ DOMAIN finalStats = {"Dev1", "Dev2"}
    /\ finalStats["Dev1"].Lines = 15
    /\ finalStats["Dev1"].Commits = 1
    /\ finalStats["Dev1"].Files = 2
    /\ finalStats["Dev2"].Lines = 5
    /\ finalStats["Dev2"].Commits = 1
    /\ finalStats["Dev2"].Files = 1

\* The run that merges the results of the filtered files in the order of
\* the file list: [aborted, final], final the accumulator when the merge
\* loop ends or aborts.  skip is a set of files left out.
RECURSIVE MergeInListOrder(_, _, _)
MergeInListOrder(i, final, skip) ==
    IF i > Len(files) THEN [aborted |-> FALSE, final |-> final]
    ELSE IF i \notin Filtered \/ i \in skip
        THEN MergeInListOrder(i + 1, final, skip)
    ELSE LET stats == calculateStats(git[i].blame, git[i].log, config)
         IN IF MergePanics(final, stats)
                THEN [aborted |-> TRUE, final |-> final]
            ELSE MergeInListOrder(i + 1, MergeStats(final, stats), skip)

ListOrderRun == MergeInListOrder(1, EmptyMap, {})

\* The ranked sequence of a final mapping, ranging over its keys in the
\* order of the names.
RankedOf(final) ==
    LET keys == {NameIndex(a) : a \in DOMAIN final}
        RECURSIVE Asc(_)
        Asc(ks) ==
            IF ks = {} THEN <<>>
            ELSE LET k == CHOOSE x \in ks : \A y \in ks : x <= y
                 IN <<final[NameOrder[k]]>> \o Asc(ks \ {k})
    IN sortByConfig(Asc(keys), config.OrderBy)

\* C4 as stated: for a fixed input every run ends as the run that merges in
\* list order ends: it aborts exactly when that run aborts, and otherwise
\* returns the same mapping and the same ranked sequence.
C4_SameOutcomeInEveryRun ==
    /\ panic # "none" => ListOrderRun.aborted
    /\ Returned =>
        /\ ~ListOrderRun.aborted
        /\ finalStats = FinalizeCommits(ListOrderRun.final)
    /\ mainPc = "done" =>
        ranked = RankedOf(FinalizeCommits(ListOrderRun.final))

\* The four fields of an ActorStats that outputResults prints.
Observable(final) ==
    [a \in DOMAIN final |->
        [Name |-> final[a].Name, Lines |-> final[a].Lines,
         Commits |-> final[a].Commits, Files |-> final[a].Files]]

\* The keys that the files fs put into the accumulator: the identities of
\* their records and, for a file whose fallback query fails, the empty name
\* of the zero ActorStats that main.go:253-254 stores.
KeysOf(fs) ==
    {a \in Names : \E i \in fs : Appears(a, i)}
        \cup (IF \E i \in fs : FallbackFails(i) THEN {""} ELSE {})

\* The mapping that the files fs alone give.
StatsOf(fs) ==
    [a \in KeysOf(fs) |->
        [Name |-> a,
         Lines |-> SumLines(a, fs),
         Commits |-> Cardinality(UNION {CommitsOf(a, i) : i \in fs}),
         Files |-> Cardinality({i \in fs : Appears(a, i)})]]

BlameFailed == {i \in DOMAIN files : git[i].blame.err}

Extracted(i) == ew[i] \in {"send", "sent", "done"}

\* C7: a file whose git blame fails contributes nothing: its result is
\* empty, and the mapping that aggregateStats returns is the mapping of the
\* other filtered files alone, all of whose lines, commits and files are
\* aggregated.
C7_BlameFailureContributesNothing ==
    /\ \A i \in DOMAIN files :
        Extracted(i) /\ i \in BlameFailed => result[i] = EmptyMap
    /\ Returned =>
        Observable(finalStats) = StatsOf(Filtered \ BlameFailed)

\* C7 witness: a run returns with one filtered file whose blame failed and
\* the statistics of the other file.
C7_Witness ==
    /\ Returned
    /\ Filtered \cap BlameFailed # {}
    /\ \E j \in Filtered \ BlameFailed, a \in DOMAIN finalStats :
        /\ Appears(a, j)
        /\ finalStats[a].Lines > 0

\* C8 as stated: a file without attributable lines whose fallback query
\* fails gives an empty mapping, and adds no identity to the final mapping:
\* every identity of the final mapping has a record in some filtered file.
C8_FailedFallbackAddsNothing ==
    /\ \A i \in DOMAIN files :
        Extracted(i) /\ FallbackFails(i) => result[i] = EmptyMap
    /\ Returned =>
        \A a \in DOMAIN finalStats : \E i \in Filtered : Appears(a, i)

\* C9 as stated: whatever queries fail and in whatever order the results
\* are merged, the merge loop does not abort, and the commits of every
\* record of every filtered file are in the returned mapping.
C9_NoAbortAllContributionsPresent ==
    /\ panic = "none"
    /\ Returned =>
        \A i \in Filtered, a \in Names :
            Appears(a, i) =>
                /\ a \in DOMAIN finalStats
                /\ CommitsOf(a, i) \subseteq finalStats[a].commitsSet

\* C10: a filtered file without attributable lines whose fallback query
\* succeeds gives exactly one partial statistic, for the identity of its
\* last commit, with Lines 0, the set of that one commit and Files 1; if
\* the identity appears in no other filtered file, its final statistic is
\* Lines 0, Commits 1, Files 1.
C10_EmptyFileFallback ==
    /\ \A i \in DOMAIN files :
        Extracted(i) /\ HasFallback(i) =>
            /\ DOMAIN result[i] = {git[i].log.an}
            /\ result[i][git[i].log.an] =
                [ZeroActorStats EXCEPT !.Name = git[i].log.an,
                                       !.commitsSet = {git[i].log.hash},
                                       !.hasSet = TRUE,
                                       !.Files = 1]
    /\ Returned =>
        \A i \in Filtered :
            (/\ HasFallback(i)
             /\ \A j \in Filtered \ {i} : ~Appears(git[i].log.an, j))
            => /\ git[i].log.an \in DOMAIN finalStats
               /\ Observable(finalStats)[git[i].log.an] =
                    [Name |-> git[i].log.an, Lines |-> 0,
                     Commits |-> 1, Files |-> 1]

\* C10 witness: a run returns the row of an empty file whose last commit
\* is by an identity that no other file has, beside another file's rows.
C10_Witness ==
    /\ Returned
    /\ \E i \in Filtered :
        /\ HasFallback(i)
        /\ \A j \in Filtered \ {i} : ~Appears(git[i].log.an, j)
        /\ Filtered # {i}
        /\ Cardinality(DOMAIN finalStats) >= 2
        /\ finalStats[git[i].log.an].Commits = 1

\* ---------------------------------------------------------- claims, filter
\* suffix is a suffix of s.
IsSuffixOf(suffix, s) ==
    \E k \in 0..Len(s) : SubSeq(s, k + 1, Len(s)) = suffix

PassExtensions(path) ==
    \/ config.Extensions = <<>>
    \/ \E k \in DOMAIN config.Extensions :
        IsSuffixOf(config.Extensions[k], path)

PassExclude(path) ==
    \/ config.Exclude = <<>>
    \/ \A k \in DOMAIN config.Exclude : ~Match(config.Exclude[k], path)

PassRestrictTo(path) ==
    \/ config.RestrictTo = <<>>
    \/ \E k \in DOMAIN config.RestrictTo : Match(config.RestrictTo[k], path)

PassLanguages(path) ==
    \/ config.Languages = <<>>
    \/ \E k \in DOMAIN config.Languages :
        LET lang == ToLower(config.Languages[k])
        IN /\ lang \in DOMAIN config.ExtensionsMap
           /\ \E j \in DOMAIN config.ExtensionsMap[lang] :
                IsSuffixOf(config.ExtensionsMap[lang][j], Ext(path))

PassesAll(path) ==
    /\ PassExtensions(path)
    /\ PassExclude(path)
    /\ PassRestrictTo(path)
    /\ PassLanguages(path)

\* The files that were put on filteredChan: those still in its buffer and
\* those that the range at main.go:299 has taken from it.
Delivered ==
    {i \in DOMAIN files :
        \/ \E k \in DOMAIN filteredChan : filteredChan[k] = i
        \/ ew[i] # "idle"}

\* C5: a path is put on the filtered stream if and only if all four
\* predicates pass, each of them passing when its list is empty: a worker
\* that has run has delivered its file exactly when the file passes, no
\* failing path is ever delivered, and when the stream is closed every
\* passing path has been delivered.
C5_DeliveredIffAllFourPass ==
    /\ \A i \in DOMAIN files :
        fw[i] \in {"sent", "done"} => (i \in Delivered <=> PassesAll(files[i]))
    /\ \A i \in Delivered : PassesAll(files[i])
    /\ filteredClosed =>
        Delivered = {i \in DOMAIN files : PassesAll(files[i])}

\* C5 witness: the stream is closed, all four lists are populated, one file
\* was delivered and another was dropped.
C5_Witness ==
    /\ filteredClosed
    /\ config.Extensions # <<>>
    /\ config.Exclude # <<>>
    /\ config.RestrictTo # <<>>
    /\ config.Languages # <<>>
    /\ \E i, j \in DOMAIN files : i \in Delivered /\ j \notin Delivered

\* --------------------------------------------------------- claims, ranking
\* The sort keys of an actor in the order of the cascade of orderBy.
CascadeKey(a, orderBy) ==
    CASE orderBy = "commits" -> <<a.Commits, a.Lines, a.Files>>
      [] orderBy = "files" -> <<a.Files, a.Lines, a.Commits>>
      [] OTHER -> <<a.Lines, a.Commits, a.Files>>

\* x is greater than y at the first position where they differ.
LexGreater(x, y) ==
    \E k \in 1..3 : x[k] > y[k] /\ \A m \in 1..(k - 1) : x[m] = y[m]

\* a ranks before b: descending by the cascade, ascending by Name on a tie
\* of all three keys.
RanksBefore(a, b, orderBy) ==
    \/ LexGreater(CascadeKey(a, orderBy), CascadeKey(b, orderBy))
    \/ /\ CascadeKey(a, orderBy) = CascadeKey(b, orderBy)
       /\ StrLess(a.Name, b.Name)

Actors == {finalStats[a] : a \in DOMAIN finalStats}

\* C6: for each orderBy the comparator of sortByConfig is the cascade with
\* the ascending Name tie-break, it is a strict total order on the actors
\* of a mapping (irreflexive, asymmetric, transitive, any two distinct
\* actors comparable), and the sorted sequence holds every actor once in
\* that order, whatever the order in which the map was ranged over.
C6_RankingIsTotalOrder ==
    /\ \A a, b \in Actors :
        /\ less(a, b, config.OrderBy) <=> RanksBefore(a, b, config.OrderBy)
        /\ ~less(a, a, config.OrderBy)
        /\ less(a, b, config.OrderBy) => ~less(b, a, config.OrderBy)
        /\ a # b => less(a, b, config.OrderBy) \/ less(b, a, config.OrderBy)
        /\ \A c \in Actors :
            less(a, b, config.OrderBy) /\ less(b, c, config.OrderBy)
                => less(a, c, config.OrderBy)
    /\ mainPc = "done" =>
        /\ Len(ranked) = Cardinality(Actors)
        /\ {ranked[k] : k \in DOMAIN ranked} = Actors
        /\ \A i, j \in DOMAIN ranked :
            i < j => RanksBefore(ranked[i], ranked[j], config.OrderBy)

\* C6 witness: the example of the specification by lines in small numbers,
\* two actors tied on Lines and ordered by Commits, the third with fewer
\* Lines and more Commits last.
C6_Witness ==
    /\ mainPc = "done"
    /\ config.OrderBy = "lines"
    /\ Len(ranked) = 3
    /\ ranked[1].Name = "Dev2" /\ ranked[2].Name = "Dev1" /\ ranked[3].Name = ""
    /\ ranked[1].Lines = 1 /\ ranked[1].Commits = 1 /\ ranked[1].Files = 1
    /\ ranked[2].Lines = 1 /\ ranked[2].Commits = 0 /\ ranked[2].Files = 1
    /\ ranked[3].Lines = 0 /\ ranked[3].Commits = 1 /\ ranked[3].Files = 0

\* ------------------------------------------------------- claims, identity
\* The identity that the configuration selects for the fallback record of
\* files[i]: the committer of its last commit under UseCommitter, the
\* author otherwise.
ConfiguredFallbackIdentity(i) ==
    IF config.UseCommitter THEN git[i].cn ELSE git[i].log.an

\* The identities that the configuration selects for files[i].
ConfiguredIdentities(i) ==
    IF HasFallback(i) THEN {ConfiguredFallbackIdentity(i)}
    ELSE {Identity(git[i].blame.out[k]) : k \in Runs(i)}

\* C11 as stated: every statistic is recorded under the identity that the
\* configuration selects, the committer under UseCommitter and the author
\* otherwise, for the attribution records of a file and for the fallback
\* record of a file without attributable lines.
C11_IdentityFollowsUseCommitter ==
    \A i \in DOMAIN files :
        (Extracted(i) /\ ~FallbackFails(i)) =>
            DOMAIN result[i] = ConfiguredIdentities(i)

\* ------------------------------------------------------- claims, language
\* The portion of path after its last dot, empty when it has none.
RECURSIVE AfterLastDotFrom(_, _)
AfterLastDotFrom(path, i) ==
    IF i = 0 THEN <<>>
    ELSE IF path[i] = "." THEN SubSeq(path, i + 1, Len(path))
    ELSE AfterLastDotFrom(path, i - 1)

AfterLastDot(path) == AfterLastDotFrom(path, Len(path))

\* x and y end in the same non-empty string.
CommonSuffix(x, y) ==
    x # <<>> /\ y # <<>> /\ x[Len(x)] = y[Len(y)]

\* The language predicate as C12 words it.
CommonSuffixLanguages(path) ==
    \/ config.Languages = <<>>
    \/ \E k \in DOMAIN config.Languages :
        LET lang == ToLower(config.Languages[k])
        IN /\ lang \in DOMAIN config.ExtensionsMap
           /\ \E j \in DOMAIN config.ExtensionsMap[lang] :
                CommonSuffix(AfterLastDot(path), config.ExtensionsMap[lang][j])

\* The other three predicates pass for files[i] and its worker has run, so
\* the language predicate alone decides whether it was delivered.
LanguageDecides(i) ==
    /\ fw[i] \in {"sent", "done"}
    /\ PassExtensions(files[i])
    /\ PassExclude(files[i])
    /\ PassRestrictTo(files[i])

\* C12 as stated: the language predicate passes exactly when the list is
\* empty or the portion of the path after its last dot has a non-empty
\* common suffix with an extension registered for a requested language.
C12_CommonSuffixDecides ==
    \A i \in DOMAIN files :
        LanguageDecides(i) =>
            (i \in Delivered <=> CommonSuffixLanguages(files[i]))

\* C12 amended: the language predicate passes exactly when the list is
\* empty or an extension registered for a requested language (names
\* compared in lower case) is a suffix of the extension of the path, the
\* part of its last element from the last dot on; it fails otherwise, also
\* when every requested language is unknown to the table.
C12_RegisteredSuffixDecides ==
    \A i \in DOMAIN files :
        LanguageDecides(i) =>
            /\ i \in Delivered <=> PassLanguages(files[i])
            /\ (/\ config.Languages # <<>>
                /\ \A k \in DOMAIN config.Languages :
                    ToLower(config.Languages[k]) \notin DOMAIN config.ExtensionsMap)
               => i \notin Delivered

\* C12 witness: under a populated language list one file was delivered and
\* another, whose extension only ends like a registered one, was dropped.
C12_Witness ==
    /\ config.Languages # <<>>
    /\ \E i, j \in DOMAIN files :
        /\ LanguageDecides(i) /\ i \in Delivered
        /\ LanguageDecides(j) /\ j \notin Delivered
        /\ CommonSuffixLanguages(files[j])

\* ------------------------------------------------------------ C13
\* Every file that passes the filter has been taken from the filtered
\* stream, its extraction has finished and its result has been merged (its
\* worker is past the send), and no worker of either stage is still
\* running.
BarrierPassed ==
    /\ filteredClosed
    /\ filteredChan = <<>>
    /\ resultsClosed
    /\ aggWg = 0
    /\ \A i \in DOMAIN files :
        /\ fw[i] = "done"
        /\ ew[i] = (IF i \in Filtered THEN "done" ELSE "idle")

\* Some Commits field has been written: Commits is zero in every partial
\* result and in every merged entry, so a non-zero value is the work of
\* the loop at main.go:329, as is main's position after that loop.
CommitsWritten ==
    \/ Returned
    \/ \E a \in DOMAIN finalStats : finalStats[a].Commits # 0

\* C13: a Commits field is written only after every file taken from the
\* filtered stream has had its extraction finished and its result merged:
\* in no reachable state is a Commits field written while an extraction
\* worker is running or a partial result is unmerged.
C13_CommitsWrittenAfterBarrier ==
    /\ CommitsWritten => BarrierPassed
    /\ \A i \in DOMAIN files :
        ew[i] \in {"calc", "send"} =>
            \A a \in DOMAIN finalStats : finalStats[a].Commits = 0

\* C13 witness: two files were extracted and merged, then Commits was
\* written.
C13_Witness ==
    /\ mainPc = "output"
    /\ Cardinality(Filtered) = 2
    /\ \A i \in Filtered : ew[i] = "done" /\ result[i] # EmptyMap
    /\ \E a \in DOMAIN finalStats : finalStats[a].Commits = 2

\* ------------------------------------------------------------ C14
\* The number of times i is in the buffer of the filtered stream.
Buffered(i) == Cardinality({k \in DOMAIN filteredChan : filteredChan[k] = i})

\* The consumer has seen the filtered stream closed: its range over the
\* stream has ended.
SeenClosed == mainPc \in {"rangeResults", "output", "done"}

\* The states of C14: a path is in the stream, or with the consumer, at
\* most once and only if it passes the filter and its worker is past the
\* send; the stream is closed only when every worker is done; and when the
\* consumer has seen it closed, every passing path has been received.
ExactlyOnceState ==
    /\ \A i \in DOMAIN files :
        /\ Buffered(i) + (IF ew[i] = "idle" THEN 0 ELSE 1) <= 1
        /\ i \in Delivered => PassesAll(files[i]) /\ fw[i] \in {"sent", "done"}
        /\ fw[i] \in {"sent", "done"} /\ PassesAll(files[i]) => i \in Delivered
    /\ filteredClosed => \A i \in DOMAIN files : fw[i] = "done"
    /\ SeenClosed =>
        /\ filteredClosed
        /\ \A i \in DOMAIN files : PassesAll(files[i]) => ew[i] # "idle"

\* The steps of C14: a filter worker is started once, evaluates once and
\* finishes once, and the consumer takes a path from the stream once.
ExactlyOnceStep ==
    \A i \in DOMAIN files :
        /\ fw'[i] # fw[i] =>
            <<fw[i], fw'[i]>> \in
                {<<"idle", "run">>, <<"run", "sent">>, <<"sent", "done">>}
        /\ Buffered(i)' > Buffered(i) => fw[i] = "run" /\ fw'[i] = "sent"
        /\ ew[i] # "idle" => ew'[i] # "idle"
        /\ ew[i] = "idle" /\ ew'[i] # "idle" =>
            Buffered(i) = 1 /\ Buffered(i)' = 0

\* C14: every input file is evaluated exactly once, the consumer receives
\* every passing path exactly once, and it sees the stream closed only
\* after every filter worker has finished its evaluation and its send.
C14_EveryMatchOnceThenClosed ==
    []ExactlyOnceState /\ [][ExactlyOnceStep]_vars

\* C14 witness: of two files one passed and one did not; both workers are
\* done and the consumer has received the passing one and seen the close.
C14_Witness ==
    /\ SeenClosed
    /\ \E i, j \in DOMAIN files :
        /\ PassesAll(files[i]) /\ ew[i] # "idle"
        /\ ~PassesAll(files[j]) /\ ew[j] = "idle" /\ fw[j] = "done"

\* ------------------------------------------------------------ C15
\* The step is one iteration of the loop at main.go:314: main receives the
\* result of exactly one worker, whose send completes.
MainMergesOne ==
    /\ mainPc = "rangeResults"
    /\ mainPc' = "rangeResults"
    /\ Cardinality({i \in DOMAIN files :
                        ew[i] = "send" /\ ew'[i] = "sent"}) = 1

\* The step is main's loop at main.go:329.
MainFinalizes == mainPc = "rangeResults" /\ mainPc' = "output"

\* Worker i has handed its result over: its send has completed.
HandedOver(i) == ew[i] \in {"sent", "done"}

\* The states of C15: the accumulator is empty until main is in its merge
\* loop, and every map it holds was made by a worker that has handed its
\* result over.
SingleWriterState ==
    /\ DOMAIN setOwner = DOMAIN finalStats
    /\ mainPc \in {"filterLoop", "rangeFiles"} => finalStats = EmptyMap
    /\ \A a \in DOMAIN finalStats :
        /\ setOwner[a] # 0 <=> finalStats[a].hasSet
        /\ setOwner[a] # 0 =>
            /\ HandedOver(setOwner[a])
            /\ a \in DOMAIN result[setOwner[a]]

\* The steps of C15: the accumulator and the maps it holds change only in
\* a step of main's single loop, one result at a time; a worker writes its
\* result only before it hands it over, and its step after that touches
\* neither its result nor the accumulator.
SingleWriterStep ==
    /\ (finalStats' # finalStats \/ setOwner' # setOwner) =>
        MainMergesOne \/ MainFinalizes
    /\ \A i \in DOMAIN files :
        /\ result'[i] # result[i] => ew[i] = "calc" /\ ew'[i] = "send"
        /\ (HandedOver(i) /\ ew'[i] # ew[i]) =>
            UNCHANGED <<result, finalStats, setOwner>>
    /\ \A a \in DOMAIN finalStats :
        finalStats'[a].commitsSet # finalStats[a].commitsSet =>
            /\ MainMergesOne
            /\ setOwner[a] # 0
            /\ HandedOver(setOwner[a])

\* C15: the accumulator, and the commit-id sets it shares with the first
\* result received for an identity, are written by the single merge loop
\* only, one result at a time, while extractions run in parallel; no
\* worker touches its result after handing it over.
C15_SingleWriter ==
    []SingleWriterState /\ [][SingleWriterStep]_vars

\* C15 witness: main has merged the result of one file into a map made by
\* the worker of another file, adding a commit to it.
C15_Witness ==
    \E a \in DOMAIN finalStats, i \in DOMAIN files :
        /\ setOwner[a] \notin {0, i}
        /\ HandedOver(i)
        /\ a \in DOMAIN result[i]
        /\ finalStats[a].commitsSet # result[setOwner[a]][a].commitsSet

\* ------------------------------------------------------------ C17
\* The filter workers that have been started and have not signalled Done,
\* and the same for the extraction workers.
LiveFilterWorkers == {i \in DOMAIN files : fw[i] \in {"run", "sent"}}

LiveExtractWorkers == {i \in DOMAIN files : ew[i] \in {"calc", "send", "sent"}}

\* C17: in both stages the channel is closed once and no worker sends on
\* it after the close: neither channel panic is reachable; each counter
\* counts exactly the workers started and not yet past their send and
\* Done, every worker is counted before the closer of its stage starts to
\* wait, and a closed channel means every worker of the stage is done.
C17_CloseOnceAfterEverySend ==
    /\ panic \notin {"send on closed channel", "close of closed channel"}
    /\ filterWg = Cardinality(LiveFilterWorkers)
    /\ aggWg = Cardinality(LiveExtractWorkers)
    /\ fcloser # "idle" => \A i \in DOMAIN files : fw[i] # "idle"
    /\ acloser # "idle" =>
        /\ filteredClosed /\ filteredChan = <<>>
        /\ \A i \in Filtered : ew[i] # "idle"
    /\ filteredClosed <=> fcloser = "done"
    /\ resultsClosed <=> acloser = "done"
    /\ filteredClosed => LiveFilterWorkers = {}
    /\ resultsClosed => LiveExtractWorkers = {}

\* C17 witness: both channels are closed after two workers of each stage
\* have sent, and the run has returned.
C17_Witness ==
    /\ filteredClosed /\ resultsClosed
    /\ panic = "none"
    /\ Returned
    /\ Cardinality({i \in DOMAIN files : ew[i] = "done"}) = 2

\* ------------------------------------------------------------ C18
\* Some result has been received by the merge loop.
SomeReceived ==
    \/ \E i \in DOMAIN files : HandedOver(i)
    \/ finalStats # EmptyMap

\* C18: no result is received or merged until the filtered stream is
\* closed and drained and a worker has been started for every filtered
\* file; until the first receive every started worker is live, running or
\* blocked on its send, so that when main enters the merge loop the live
\* workers are as many as the filtered files.
C18_NoMergeBeforeAllStarted ==
    /\ SomeReceived =>
        /\ mainPc # "rangeFiles"
        /\ filteredClosed /\ filteredChan = <<>>
        /\ \A i \in Filtered : ew[i] # "idle"
    /\ ~SomeReceived =>
        /\ LiveExtractWorkers = {i \in DOMAIN files : ew[i] # "idle"}
        /\ mainPc = "rangeResults" =>
            /\ LiveExtractWorkers = Filtered
            /\ aggWg = Cardinality(Filtered)

\* C18 witness: a worker has finished its extraction and is blocked on its
\* send while the filter worker of another file, which passes, is still
\* running.
C18_Witness ==
    \E i, j \in DOMAIN files :
        /\ ew[i] = "send"
        /\ mainPc = "rangeFiles"
        /\ j \in Filtered
        /\ fw[j] = "run"
        /\ result[i] # EmptyMap

\* ------------------------------------------------------------ C19
\* C19: a filter worker never blocks on its send: the buffer never holds
\* more paths than its capacity, the number of input files, each worker
\* has at most one path in it, and in every state every started filter
\* worker can take its next step, whatever the consumer has done; the
\* closer waits for the workers only, and can close once they are done.
C19_FilterNeverBlocks ==
    /\ Len(filteredChan) <= Capacity(files)
    /\ \A i \in DOMAIN files : Buffered(i) <= 1
    /\ panic = "none" =>
        /\ \A i \in DOMAIN files :
            /\ fw[i] = "run" => ENABLED FilterWorker(i)
            /\ fw[i] = "sent" => ENABLED FilterDone(i)
        /\ (fcloser = "wait" /\ LiveFilterWorkers = {}) =>
            ENABLED FilterCloserWait
        /\ fcloser = "close" => ENABLED FilterCloserClose

\* C19 witness: the filter stage has finished and closed the stream with
\* both paths in the buffer, and the consumer has read nothing.
C19_Witness ==
    /\ filteredClosed
    /\ fcloser = "done"
    /\ Len(files) = 2
    /\ Len(filteredChan) = 2
    /\ \A i \in DOMAIN files : ew[i] = "idle"

\* ------------------------------------------------------------ C16
\* The pipeline under a fair scheduler: the Go runtime runs every goroutine
\* that is runnable, so a step that stays possible is eventually taken.  A
\* step of worker i is a step of the goroutine started for files[i].
WorkerStep(i) ==
    /\ i \in DOMAIN files
    /\ \/ FilterWorker(i)
       \/ FilterDone(i)
       \/ Extract(i)
       \/ Merge(i)
       \/ ExtractDone(i)

MainStep ==
    \/ SpawnFilter
    \/ SpawnFilterCloser
    \/ RangeFilesRecv
    \/ RangeFilesEnd
    \/ Finalize
    \/ OutputResults

Fairness ==
    /\ WF_vars(MainStep)
    /\ WF_vars(FilterCloserWait \/ FilterCloserClose)
    /\ WF_vars(AggCloserWait \/ AggCloserClose)
    /\ \A i \in 1..MaxFiles : WF_vars(WorkerStep(i))

SpecFair == Init /\ [][Next]_vars /\ Fairness

\* Every goroutine of both stages has finished and aggregateStats has
\* returned.
AllFinished ==
    /\ Returned
    /\ fcloser = "done"
    /\ acloser = "done"
    /\ \A i \in DOMAIN files :
        /\ fw[i] = "done"
        /\ ew[i] = (IF i \in Filtered THEN "done" ELSE "idle")

\* C16: under every fair interleaving, for every file list and whichever
\* files fail their blame, the workers and both closers finish and
\* aggregateStats returns.
C16_EventuallyReturns == <>AllFinished

\* What remains of C16: a fair run either finishes or is ended by the
\* abort of the merge loop, the write into the nil commitsSet.
ReturnsUnlessAborted ==
    <>(AllFinished \/ panic = "assignment to entry in nil map")

====
